---- MODULE Spec2Model ----
(***************************************************************************)
(* A model of the tracecat CRUD API (src/tracecat/api.py): four tables     *)
(* (Workflow, Action, WorkflowRun, Webhook) and one action per HTTP        *)
(* handler.  Each handler runs to completion in one step: it reads the     *)
(* tables, commits its change if it has one, and leaves its outcome in     *)
(* `resp`.                                                                 *)
(***************************************************************************)
EXTENDS Integers, FiniteSets, Sequences, TLC

\* ---------------------------------------------------------------- bounds
\* Number of API calls in one behaviour.
MaxCalls == 4

\* ------------------------------------------------------------ value sets
\* Python's None.  No request string below equals it.
None == "None"

\* The strings of the requests.
Titles == {"T1", "T2"}
Descriptions == {"D1"}
NewTitles == {"T2"}
NewDescriptions == {"D2"}
NewStatuses == {"published"}
\* Texts a caller may store in Workflow.object: a JSON object, a JSON value
\* that is no object, and text that is not JSON.
ObjectTexts == {"{}", "[]", "oops"}
\* Texts a caller may store in Action.inputs.
InputsTexts == {"{}", "oops"}
ActionTypes == {"webhook"}
ActionTitles == {"A1"}
Paths == {"/hook"}

\* ------------------------------------------------- tracecat.db (defaults)
\* Default column values and generated values of the table classes.
DefaultWorkflowStatus == "offline"
DefaultActionStatus == "offline"
DefaultRunStatus == "pending"

\* An id no table ever generates (a caller may send any string as an id).
Bogus == <<"none", 0>>
\* A secret no webhook ever gets.
WrongSecret == <<"secret", 0>>

\* workflows, actions, runs, webhooks: the rows of the four tables.
\* issued: the primary keys generated so far.  calls: the calls made.
\* resp: the last call and its outcome.  deleted: the action rows that
\* delete_action has deleted.
VARIABLES workflows, actions, runs, webhooks, issued, calls, resp, deleted

vars == <<workflows, actions, runs, webhooks, issued, calls, resp, deleted>>
tables == <<workflows, actions, runs, webhooks>>

\* A generated primary key: the n-th id of a table, different from every id
\* generated before and from the ids of the other tables.
NewId(table) == <<table, Cardinality({i \in issued : i[1] = table}) + 1>>

\* The secret generated for a new webhook: one per webhook.
NewSecret(id) == <<"secret", id[2]>>

\* The ids a caller can put in a request: the ids a table has generated so
\* far and one string that is no generated id.
KnownIds(table) == {i \in issued : i[1] = table} \cup {Bogus}

\* The lookup key of an action, derived from its type and its id.
action_key(action) == <<action.type, action.id>>

\* ------------------------------------------------------------- helpers
\* A deserialized value: a dict or a list with its members, or Python's None
\* where a response field is `dict | None`.
NoneValue == [kind |-> "None", keys |-> {}]

\* json.loads on the texts of the model.
json_loads(text) ==
    CASE text = "{}" -> [exc |-> None, value |-> [kind |-> "dict", keys |-> {}]]
      [] text = "[]" -> [exc |-> None, value |-> [kind |-> "list", keys |-> {}]]
      [] OTHER -> [exc |-> "JSONDecodeError", value |-> NoneValue]

\* Result.first() in the place of Result.one(): no row is no error here, and
\* the handler fails later, on the first attribute it reads from None.
first(rows) ==
    IF rows = {} THEN [exc |-> "AttributeError", row |-> None]
    ELSE [exc |-> None, row |-> CHOOSE r \in rows : TRUE]

\* Result.one(): the single row, NoResultFound for none.
one(rows) ==
    IF rows = {} THEN [exc |-> "NoResultFound", row |-> None]
    ELSE IF Cardinality(rows) > 1 THEN [exc |-> "MultipleResultsFound", row |-> None]
    ELSE [exc |-> None, row |-> CHOOSE r \in rows : TRUE]

\* The outcome of a call.  outcome is "ok", "HTTP_404" or the name of the
\* exception that left the handler.
Reply(op, args, outcome, body) ==
    [op |-> op, args |-> args, outcome |-> outcome, body |-> body]

NoArgs == [none |-> None]

\* One API call: counted, and its outcome recorded.
Call(r) ==
    /\ calls < MaxCalls
    /\ calls' = calls + 1
    /\ resp' = r

\* A commit that loses the row it was to write back.
CommitLost(table, old, new) == table \ {old}

\* session.add(row); session.commit() on a row loaded from the table.
Commit(table, old, new) == (table \ {old}) \cup {new}

\* A delete that is never committed.
DeleteUncommitted(table, row) == table

\* session.delete(row); session.commit()
Delete(table, row) == table \ {row}

\* -------------------------------------------------------- response models
WorkflowMetadataResponse(workflow) ==
    [id |-> workflow.id, title |-> workflow.title,
     description |-> workflow.description, status |-> workflow.status]

\* inputs=json.loads(action.inputs) if action.inputs else None
action_inputs(action) ==
    IF action.inputs = None \/ action.inputs = ""
    THEN [exc |-> None, value |-> NoneValue]
    ELSE json_loads(action.inputs)

ActionResponse(action) ==
    [id |-> action.id, title |-> action.title, description |-> action.description,
     status |-> action.status, inputs |-> action_inputs(action).value,
     key |-> action_key(action)]

\* ActionResponse.inputs is dict | None: another JSON value fails validation.
ActionResponseExc(action) ==
    LET i == action_inputs(action) IN
    IF i.exc # None THEN i.exc
    ELSE IF i.value.kind \notin {"dict", "None"} THEN "ValidationError"
    ELSE None

\* ------------------------------------------------------------- workflows
list_workflows ==
    /\ Call(Reply("list_workflows", NoArgs, "ok",
                  {WorkflowMetadataResponse(w) : w \in workflows}))
    /\ UNCHANGED <<tables, issued, deleted>>

\* The two arguments of the constructor exchanged.
NewWorkflowSwapped(id, params) ==
    [id |-> id, title |-> params.description, description |-> params.title,
     status |-> DefaultWorkflowStatus, object |-> None]

\* Workflow(title=params.title, description=params.description)
NewWorkflow(id, params) ==
    [id |-> id, title |-> params.title, description |-> params.description,
     status |-> DefaultWorkflowStatus, object |-> None]

create_workflow(params) ==
    LET workflow == NewWorkflow(NewId("workflow"), params) IN
    /\ Call(Reply("create_workflow", params, "ok", WorkflowMetadataResponse(workflow)))
    /\ workflows' = workflows \cup {workflow}
    /\ issued' = issued \cup {workflow.id}
    /\ UNCHANGED <<actions, runs, webhooks, deleted>>

\* The handler without its try/except: NoResultFound leaves it as it is.
get_workflow_unhandled(exc) == exc

\* try: workflow = result.one()
\* except NoResultFound: raise HTTPException(status_code=404, ...)
get_workflow_except(exc) == IF exc = "NoResultFound" THEN "HTTP_404" ELSE exc

get_workflow_reply(workflow_id) ==
    LET args == [workflow_id |-> workflow_id]
        result == one({w \in workflows : w.id = workflow_id})
        workflow == result.row
        acts == {a \in actions : a.workflow_id = workflow_id}
        object == IF workflow.object # None
                  THEN json_loads(workflow.object)
                  ELSE [exc |-> None, value |-> NoneValue]
        bad == {a \in acts : ActionResponseExc(a) # None}
    IN  IF result.exc # None
        THEN Reply("get_workflow", args, get_workflow_except(result.exc), None)
        ELSE IF object.exc # None
        THEN Reply("get_workflow", args, object.exc, None)
        ELSE IF bad # {}
        THEN Reply("get_workflow", args, ActionResponseExc(CHOOSE a \in bad : TRUE), None)
        ELSE IF object.value.kind \notin {"dict", "None"}
        THEN Reply("get_workflow", args, "ValidationError", None)
        ELSE Reply("get_workflow", args, "ok",
                   [id |-> workflow.id, title |-> workflow.title,
                    description |-> workflow.description, status |-> workflow.status,
                    actions |-> {ActionResponse(a) : a \in acts},
                    object |-> object.value])

get_workflow(workflow_id) ==
    /\ Call(get_workflow_reply(workflow_id))
    /\ UNCHANGED <<tables, issued, deleted>>

\* An update that writes the title without the test for None.
UpdatedWorkflowAlways(workflow, params) ==
    [id |-> workflow.id,
     title |-> params.title,
     description |-> IF params.description # None THEN params.description
                     ELSE workflow.description,
     status |-> IF params.status # None THEN params.status ELSE workflow.status,
     object |-> IF params.object # None THEN params.object ELSE workflow.object]

\* if params.<field> is not None: workflow.<field> = params.<field>
UpdatedWorkflow(workflow, params) ==
    [id |-> workflow.id,
     title |-> IF params.title # None THEN params.title ELSE workflow.title,
     description |-> IF params.description # None THEN params.description
                     ELSE workflow.description,
     status |-> IF params.status # None THEN params.status ELSE workflow.status,
     object |-> IF params.object # None THEN params.object ELSE workflow.object]

update_workflow(workflow_id, params) ==
    LET args == [workflow_id |-> workflow_id, params |-> params]
        result == one({w \in workflows : w.id = workflow_id})
    IN  IF result.exc # None
        THEN /\ Call(Reply("update_workflow", args, result.exc, None))
             /\ UNCHANGED <<tables, issued, deleted>>
        ELSE /\ Call(Reply("update_workflow", args, "ok", None))
             /\ workflows' = Commit(workflows, result.row,
                                    UpdatedWorkflow(result.row, params))
             /\ UNCHANGED <<actions, runs, webhooks, issued, deleted>>

CreateWorkflowParams == [title : Titles, description : Descriptions]
\* Every combination of present and absent fields, and each object text
\* alone.
UpdateWorkflowParams ==
    [title : NewTitles \cup {None}, description : NewDescriptions \cup {None},
     status : NewStatuses \cup {None}, object : {"{}", None}]
    \cup {[title |-> None, description |-> None, status |-> None, object |-> t] :
              t \in ObjectTexts}


\* ---------------------------------------------------------- workflow runs
WorkflowRunMetadataResponse(workflow_run) ==
    [id |-> workflow_run.id, workflow_id |-> workflow_run.workflow_id,
     status |-> workflow_run.status]

\* WorkflowRun(workflow_id=workflow_id)
NewWorkflowRun(id, workflow_id) ==
    [id |-> id, workflow_id |-> workflow_id, status |-> DefaultRunStatus]

create_workflow_run(workflow_id) ==
    LET workflow_run == NewWorkflowRun(NewId("run"), workflow_id) IN
    /\ Call(Reply("create_workflow_run", [workflow_id |-> workflow_id], "ok",
                  [id |-> workflow_run.id, workflow_id |-> workflow_id,
                   status |-> workflow_run.status]))
    /\ runs' = runs \cup {workflow_run}
    /\ issued' = issued \cup {workflow_run.id}
    /\ UNCHANGED <<workflows, actions, webhooks, deleted>>

\* select(WorkflowRun).where(WorkflowRun.id == workflow_id)
SelectWorkflowRuns(workflow_id) == {r \in runs : r.id = workflow_id}

list_workflow_runs(workflow_id) ==
    /\ Call(Reply("list_workflow_runs", [workflow_id |-> workflow_id], "ok",
                  {WorkflowRunMetadataResponse(r) : r \in SelectWorkflowRuns(workflow_id)}))
    /\ UNCHANGED <<tables, issued, deleted>>

WorkflowRunResponse(workflow_run) ==
    [id |-> workflow_run.id, workflow_id |-> workflow_run.workflow_id,
     status |-> workflow_run.status]

get_workflow_run_reply(workflow_id, workflow_run_id) ==
    LET args == [workflow_id |-> workflow_id, workflow_run_id |-> workflow_run_id]
        result == one({r \in runs : r.id = workflow_run_id /\ r.workflow_id = workflow_id})
    IN  IF result.exc # None
        THEN Reply("get_workflow_run", args, result.exc, None)
        ELSE Reply("get_workflow_run", args, "ok", WorkflowRunResponse(result.row))

get_workflow_run(workflow_id, workflow_run_id) ==
    /\ Call(get_workflow_run_reply(workflow_id, workflow_run_id))
    /\ UNCHANGED <<tables, issued, deleted>>

\* if params.status is not None: workflow_run.status = params.status
UpdatedWorkflowRun(workflow_run, params) ==
    [id |-> workflow_run.id, workflow_id |-> workflow_run.workflow_id,
     status |-> IF params.status # None THEN params.status ELSE workflow_run.status]

update_workflow_run(workflow_id, workflow_run_id, params) ==
    LET args == [workflow_id |-> workflow_id, workflow_run_id |-> workflow_run_id,
                 params |-> params]
        result == one({r \in runs : r.id = workflow_run_id /\ r.workflow_id = workflow_id})
    IN  IF result.exc # None
        THEN /\ Call(Reply("update_workflow_run", args, result.exc, None))
             /\ UNCHANGED <<tables, issued, deleted>>
        ELSE /\ Call(Reply("update_workflow_run", args, "ok", None))
             /\ runs' = Commit(runs, result.row, UpdatedWorkflowRun(result.row, params))
             /\ UNCHANGED <<workflows, actions, webhooks, issued, deleted>>

UpdateWorkflowRunParams == [status : {"success", None}]

\* ---------------------------------------------------------------- actions
ActionMetadataResponse(action, workflow_id, type) ==
    [id |-> action.id, workflow_id |-> workflow_id, type |-> type,
     title |-> action.title, description |-> action.description,
     status |-> action.status, key |-> action_key(action)]

\* select(Action).where(Action.workflow_id == workflow_id)
SelectActions(workflow_id) == {a \in actions : a.workflow_id = workflow_id}

list_actions(workflow_id) ==
    /\ Call(Reply("list_actions", [workflow_id |-> workflow_id], "ok",
                  {ActionMetadataResponse(a, workflow_id, a.type) :
                       a \in SelectActions(workflow_id)}))
    /\ UNCHANGED <<tables, issued, deleted>>

\* Action(workflow_id=..., type=..., title=..., description="")
NewAction(id, params) ==
    [id |-> id, workflow_id |-> params.workflow_id, type |-> params.type,
     title |-> params.title, description |-> "", status |-> DefaultActionStatus,
     inputs |-> None]

create_action(params) ==
    LET action == NewAction(NewId("action"), params) IN
    /\ Call(Reply("create_action", params, "ok",
                  ActionMetadataResponse(action, params.workflow_id, params.type)))
    /\ actions' = actions \cup {action}
    /\ issued' = issued \cup {action.id}
    /\ UNCHANGED <<workflows, runs, webhooks, deleted>>

\* The ActionResponse built from a loaded row, or the exception of building it.
ActionReply(op, args, action) ==
    IF ActionResponseExc(action) # None
    THEN Reply(op, args, ActionResponseExc(action), None)
    ELSE Reply(op, args, "ok", ActionResponse(action))

get_action_reply(action_id, workflow_id) ==
    LET args == [action_id |-> action_id, workflow_id |-> workflow_id]
        result == one({a \in actions : a.id = action_id /\ a.workflow_id = workflow_id})
    IN  IF result.exc # None
        THEN Reply("get_action", args, result.exc, None)
        ELSE ActionReply("get_action", args, result.row)

get_action(action_id, workflow_id) ==
    /\ Call(get_action_reply(action_id, workflow_id))
    /\ UNCHANGED <<tables, issued, deleted>>

\* if params.<field> is not None: action.<field> = params.<field>
UpdatedAction(action, params) ==
    [id |-> action.id, workflow_id |-> action.workflow_id, type |-> action.type,
     title |-> IF params.title # None THEN params.title ELSE action.title,
     description |-> IF params.description # None THEN params.description
                     ELSE action.description,
     status |-> IF params.status # None THEN params.status ELSE action.status,
     inputs |-> IF params.inputs # None THEN params.inputs ELSE action.inputs]

\* The row is committed before the response is built.
update_action(action_id, params) ==
    LET args == [action_id |-> action_id, params |-> params]
        result == one({a \in actions : a.id = action_id})
    IN  IF result.exc # None
        THEN /\ Call(Reply("update_action", args, result.exc, None))
             /\ UNCHANGED <<tables, issued, deleted>>
        ELSE /\ Call(ActionReply("update_action", args, UpdatedAction(result.row, params)))
             /\ actions' = Commit(actions, result.row, UpdatedAction(result.row, params))
             /\ UNCHANGED <<workflows, runs, webhooks, issued, deleted>>

delete_action(action_id) ==
    LET args == [action_id |-> action_id]
        result == one({a \in actions : a.id = action_id})
    IN  IF result.exc # None
        THEN /\ Call(Reply("delete_action", args, result.exc, None))
             /\ UNCHANGED <<tables, issued, deleted>>
        ELSE /\ Call(Reply("delete_action", args, "ok", None))
             /\ actions' = Delete(actions, result.row)
             /\ deleted' = deleted \cup {result.row}
             /\ UNCHANGED <<workflows, runs, webhooks, issued>>

\* No field, one field, or every field present.
NoActionUpdate == [title |-> None, description |-> None, status |-> None, inputs |-> None]
UpdateActionParams ==
    {NoActionUpdate}
    \cup {[NoActionUpdate EXCEPT !.title = t] : t \in NewTitles}
    \cup {[NoActionUpdate EXCEPT !.description = d] : d \in NewDescriptions}
    \cup {[NoActionUpdate EXCEPT !.status = x] : x \in NewStatuses}
    \cup {[NoActionUpdate EXCEPT !.inputs = i] : i \in InputsTexts}
    \cup [title : NewTitles, description : NewDescriptions, status : NewStatuses,
          inputs : {"{}"}]

\* --------------------------------------------------------------- webhooks
\* Webhook(path=..., action_id=..., workflow_id=...)
NewWebhook(id, params) ==
    [id |-> id, path |-> params.path, action_id |-> params.action_id,
     workflow_id |-> params.workflow_id, secret |-> NewSecret(id)]

create_webhook(params) ==
    LET webhook == NewWebhook(NewId("webhook"), params) IN
    /\ Call(Reply("create_webhook", params, "ok", None))
    /\ webhooks' = webhooks \cup {webhook}
    /\ issued' = issued \cup {webhook.id}
    /\ UNCHANGED <<workflows, actions, runs, deleted>>

WebhookResponse(webhook) ==
    [id |-> webhook.id, path |-> webhook.path, action_id |-> webhook.action_id,
     workflow_id |-> webhook.workflow_id]

get_webhook_reply(webhook_id) ==
    LET args == [webhook_id |-> webhook_id]
        result == one({h \in webhooks : h.id = webhook_id})
    IN  IF result.exc # None
        THEN Reply("get_webhook", args, result.exc, None)
        ELSE Reply("get_webhook", args, "ok", WebhookResponse(result.row))

get_webhook(webhook_id) ==
    /\ Call(get_webhook_reply(webhook_id))
    /\ UNCHANGED <<tables, issued, deleted>>

delete_webhook(webhook_id) ==
    LET args == [webhook_id |-> webhook_id]
        result == one({h \in webhooks : h.id = webhook_id})
    IN  IF result.exc # None
        THEN /\ Call(Reply("delete_webhook", args, result.exc, None))
             /\ UNCHANGED <<tables, issued, deleted>>
        ELSE /\ Call(Reply("delete_webhook", args, "ok", None))
             /\ webhooks' = Delete(webhooks, result.row)
             /\ UNCHANGED <<workflows, actions, runs, issued, deleted>>

list_webhooks(workflow_id) ==
    /\ Call(Reply("list_webhooks", [workflow_id |-> workflow_id], "ok",
                  {WebhookResponse(h) : h \in {x \in webhooks : x.workflow_id = workflow_id}}))
    /\ UNCHANGED <<tables, issued, deleted>>

\* action_key: str | None = None
NoKey == <<None, Bogus>>

\* AuthenticateWebhookResponse(**fields): `status` is required and is one of
\* the two literals; a keyword that is no field of the model is ignored.
AuthenticateWebhookResponse(fields) ==
    IF "status" \notin DOMAIN fields
    THEN [exc |-> "ValidationError", value |-> None]
    ELSE IF fields.status \notin {"Authorized", "Unauthorized"}
    THEN [exc |-> "ValidationError", value |-> None]
    ELSE [exc |-> None,
          value |-> [status |-> fields.status,
                     action_key |-> IF "action_key" \in DOMAIN fields
                                    THEN fields.action_key ELSE NoKey,
                     webhook_id |-> IF "webhook_id" \in DOMAIN fields
                                    THEN fields.webhook_id ELSE Bogus]]

\* The secret compared before the action is looked up.
authenticate_webhook_secret_first(webhook_id, secret) ==
    LET args == [webhook_id |-> webhook_id, secret |-> secret]
        webhook == one({h \in webhooks : h.id = webhook_id})
        action == one({a \in actions : a.id = webhook.row.action_id})
    IN  IF webhook.exc # None
        THEN Reply("authenticate_webhook", args, webhook.exc, None)
        ELSE IF webhook.row.secret # secret
        THEN Reply("authenticate_webhook", args,
                   AuthenticateWebhookResponse([message |-> "Unauthorized"]).exc, None)
        ELSE Reply("authenticate_webhook", args, action.exc, None)

authenticate_webhook_reply(webhook_id, secret) ==
    LET args == [webhook_id |-> webhook_id, secret |-> secret]
        webhook == one({h \in webhooks : h.id = webhook_id})
        action == one({a \in actions : a.id = webhook.row.action_id})
        response == IF webhook.row.secret # secret
                    THEN AuthenticateWebhookResponse([message |-> "Unauthorized"])
                    ELSE AuthenticateWebhookResponse(
                             [message |-> "Authorized",
                              action_key |-> action_key(action.row),
                              webhook_id |-> webhook_id])
    IN  IF webhook.exc # None
        THEN Reply("authenticate_webhook", args, webhook.exc, None)
        ELSE IF action.exc # None
        THEN Reply("authenticate_webhook", args, action.exc, None)
        ELSE IF response.exc # None
        THEN Reply("authenticate_webhook", args, response.exc, None)
        ELSE Reply("authenticate_webhook", args, "ok", response.value)

authenticate_webhook(webhook_id, secret) ==
    /\ Call(authenticate_webhook_reply(webhook_id, secret))
    /\ UNCHANGED <<tables, issued, deleted>>

\* The secrets a caller may send: those of the stored webhooks and a wrong one.
KnownSecrets == {h.secret : h \in webhooks} \cup {WrongSecret}

root ==
    /\ Call(Reply("root", NoArgs, "ok", [message |-> "Hello world. I am the API."]))
    /\ UNCHANGED <<tables, issued, deleted>>

\* ------------------------------------------------------------------ spec
Init ==
    /\ workflows = {}
    /\ actions = {}
    /\ runs = {}
    /\ webhooks = {}
    /\ issued = {}
    /\ calls = 0
    /\ resp = Reply("start", NoArgs, "ok", None)
    /\ deleted = {}

Next ==
    \/ root
    \/ list_workflows
    \/ \E params \in CreateWorkflowParams : create_workflow(params)
    \/ \E workflow_id \in KnownIds("workflow") : get_workflow(workflow_id)
    \/ \E workflow_id \in KnownIds("workflow"), params \in UpdateWorkflowParams :
           update_workflow(workflow_id, params)
    \/ \E workflow_id \in KnownIds("workflow") : create_workflow_run(workflow_id)
    \/ \E workflow_id \in KnownIds("workflow") \cup KnownIds("run") :
           list_workflow_runs(workflow_id)
    \/ \E workflow_id \in KnownIds("workflow"), workflow_run_id \in KnownIds("run") :
           get_workflow_run(workflow_id, workflow_run_id)
    \/ \E workflow_id \in KnownIds("workflow"), workflow_run_id \in KnownIds("run"),
          params \in UpdateWorkflowRunParams :
           update_workflow_run(workflow_id, workflow_run_id, params)
    \/ \E workflow_id \in KnownIds("workflow") : list_actions(workflow_id)
    \/ \E params \in [workflow_id : KnownIds("workflow"), type : ActionTypes,
                      title : ActionTitles] : create_action(params)
    \/ \E action_id \in KnownIds("action"), workflow_id \in KnownIds("workflow") :
           get_action(action_id, workflow_id)
    \/ \E action_id \in KnownIds("action"), params \in UpdateActionParams :
           update_action(action_id, params)
    \/ \E action_id \in KnownIds("action") : delete_action(action_id)
    \/ \E params \in [path : Paths, action_id : KnownIds("action"),
                      workflow_id : KnownIds("workflow")] : create_webhook(params)
    \/ \E webhook_id \in KnownIds("webhook") : get_webhook(webhook_id)
    \/ \E webhook_id \in KnownIds("webhook") : delete_webhook(webhook_id)
    \/ \E workflow_id \in KnownIds("workflow") : list_webhooks(workflow_id)
    \/ \E webhook_id \in KnownIds("webhook"), secret \in KnownSecrets :
           authenticate_webhook(webhook_id, secret)

Spec == Init /\ [][Next]_vars

\* ---------------------------------------------------------------- claims
WorkflowIds == {w.id : w \in workflows}

\* C1: get_workflow called right after create_workflow(T, D), on the id that
\* create_workflow returned, answers with title T, description D, the default
\* status, no actions and a null object.
C1_CreateThenGet ==
    [][(/\ resp.op = "create_workflow"
        /\ resp'.op = "get_workflow"
        /\ resp'.args.workflow_id = resp.body.id)
       => /\ resp'.outcome = "ok"
          /\ resp'.body.id = resp.body.id
          /\ resp'.body.title = resp.args.title
          /\ resp'.body.description = resp.args.description
          /\ resp'.body.status = DefaultWorkflowStatus
          /\ resp'.body.actions = {}
          /\ resp'.body.object = NoneValue]_vars

\* The third call of a behaviour whose store holds two workflows: the second
\* workflow was created by the call before this get_workflow, in a store that
\* held the first.
C1_Witness ==
    /\ calls = 3
    /\ Cardinality(workflows) = 2
    /\ resp.op = "get_workflow"
    /\ resp.args.workflow_id = <<"workflow", 2>>
    /\ resp.outcome = "ok"
    /\ resp.body.title = "T2"
    /\ resp.body.actions = {}

\* C2: a successful update_workflow keeps every field that is None in the
\* request, writes every field that is not, and changes no other workflow and
\* no action, run or webhook.
C2_PartialUpdate ==
    [][(resp'.op = "update_workflow" /\ resp'.outcome = "ok")
       => LET id == resp'.args.workflow_id
              params == resp'.args.params
              old == CHOOSE w \in workflows : w.id = id
              new == CHOOSE w \in workflows' : w.id = id
          IN  /\ \E w \in workflows : w.id = id
              /\ \E w \in workflows' : w.id = id
              /\ new.title = IF params.title = None THEN old.title ELSE params.title
              /\ new.description = IF params.description = None THEN old.description
                                   ELSE params.description
              /\ new.status = IF params.status = None THEN old.status ELSE params.status
              /\ new.object = IF params.object = None THEN old.object ELSE params.object
              /\ {w \in workflows' : w.id # id} = {w \in workflows : w.id # id}
              /\ UNCHANGED <<actions, runs, webhooks>>]_vars

\* An update that supplied only status "published": title and description are
\* those of the creation.
C2_Witness ==
    /\ resp.op = "update_workflow"
    /\ resp.outcome = "ok"
    /\ resp.args.params = [title |-> None, description |-> None,
                           status |-> "published", object |-> None]
    /\ \E w \in workflows :
           /\ w.id = resp.args.workflow_id
           /\ w.status = "published"
           /\ w.title = "T1"
           /\ w.description = "D1"

\* C3: an action that delete_action has deleted is in no later list_actions
\* result and in no later get_workflow actions map, and the delete removes
\* that one action only.
C3_DeletedStaysOut ==
    /\ [](\A d \in deleted :
            /\ resp.op = "list_actions" => \A m \in resp.body : m.id # d.id
            /\ (resp.op = "get_workflow" /\ resp.outcome = "ok")
                   => \A m \in resp.body.actions : m.id # d.id)
    /\ [][(resp'.op = "delete_action" /\ resp'.outcome = "ok")
          => /\ \E a \in actions : a.id = resp'.args.action_id
             /\ actions' = {a \in actions : a.id # resp'.args.action_id}]_vars

\* list_actions on the workflow of a deleted action, which still lists the
\* workflow's other action.
C3_Witness ==
    /\ resp.op = "list_actions"
    /\ resp.body # {}
    /\ \E d \in deleted : d.workflow_id = resp.args.workflow_id

\* C4: authenticate_webhook on a stored webhook whose action is stored answers
\* Authorized with the action's key for the stored secret, Unauthorized with
\* no key for another secret, and never fails.
C4_Authenticate ==
    resp.op = "authenticate_webhook" =>
        \A h \in webhooks : \A a \in actions :
            (h.id = resp.args.webhook_id /\ a.id = h.action_id) =>
                /\ resp.outcome = "ok"
                /\ resp.args.secret = h.secret =>
                       /\ resp.body.status = "Authorized"
                       /\ resp.body.action_key = action_key(a)
                /\ resp.args.secret # h.secret =>
                       /\ resp.body.status = "Unauthorized"
                       /\ resp.body.action_key = NoKey

\* C5: get_workflow on an id of no stored workflow ends in the 404 and changes
\* no table.
C5_GetWorkflowNotFound ==
    [][(resp'.op = "get_workflow" /\ resp'.args.workflow_id \notin WorkflowIds)
       => /\ resp'.outcome = "HTTP_404"
          /\ UNCHANGED tables]_vars

\* A 404 from a store that holds a workflow.
C5_Witness ==
    /\ resp.op = "get_workflow"
    /\ resp.outcome = "HTTP_404"
    /\ workflows # {}
    /\ resp.args.workflow_id \notin WorkflowIds

\* C6: list_workflow_runs(w) returns exactly the stored runs whose workflow_id
\* is w.
C6_ListRunsByWorkflow ==
    resp.op = "list_workflow_runs" =>
        resp.body = {WorkflowRunMetadataResponse(r) :
                        r \in {x \in runs : x.workflow_id = resp.args.workflow_id}}

\* C7: every action, webhook and run refers to a stored workflow.
C7_ReferencesExist ==
    /\ \A a \in actions : a.workflow_id \in WorkflowIds
    /\ \A h \in webhooks : h.workflow_id \in WorkflowIds
    /\ \A r \in runs : r.workflow_id \in WorkflowIds

\* The id a single-row handler looks its row up by, and the ids of its table.
LookupId(r) ==
    CASE r.op = "update_workflow" -> r.args.workflow_id
      [] r.op \in {"get_workflow_run", "update_workflow_run"} -> r.args.workflow_run_id
      [] r.op \in {"get_action", "update_action", "delete_action"} -> r.args.action_id
      [] OTHER -> r.args.webhook_id

LookupTable(r) ==
    CASE r.op = "update_workflow" -> workflows
      [] r.op \in {"get_workflow_run", "update_workflow_run"} -> runs
      [] r.op \in {"get_action", "update_action", "delete_action"} -> actions
      [] OTHER -> webhooks

SingleRowOps ==
    {"update_workflow", "get_workflow_run", "update_workflow_run", "get_action",
     "update_action", "delete_action", "get_webhook", "delete_webhook",
     "authenticate_webhook"}

\* C8: each single-row handler but get_workflow, called with an id of no row
\* of its table, ends in NoResultFound and changes no table.
C8_UnhandledLookup ==
    [][(/\ resp'.op \in SingleRowOps
        /\ \A row \in LookupTable(resp') : row.id # LookupId(resp'))
       => /\ resp'.outcome = "NoResultFound"
          /\ UNCHANGED tables]_vars

\* get_action on an id of no stored action, from a store that holds one.
C8_Witness ==
    /\ resp.op = "get_action"
    /\ resp.outcome = "NoResultFound"
    /\ actions # {}
    /\ \A a \in actions : a.id # resp.args.action_id

\* C9: no step removes a workflow id, so every id create_workflow has returned
\* is stored, is in every list_workflows result and never gets the 404 of
\* get_workflow.
C9_WorkflowsOnlyGrow ==
    /\ [][WorkflowIds \subseteq {w.id : w \in workflows'}]_vars
    /\ [](/\ {i \in issued : i[1] = "workflow"} \subseteq WorkflowIds
          /\ resp.op = "list_workflows"
                 => {i \in issued : i[1] = "workflow"} \subseteq {m.id : m \in resp.body}
          /\ (resp.op = "get_workflow" /\ resp.args.workflow_id \in issued)
                 => resp.outcome # "HTTP_404")

\* get_workflow finds a workflow that an update has changed since its creation.
C9_Witness ==
    /\ resp.op = "get_workflow"
    /\ resp.outcome = "ok"
    /\ resp.body.status = "published"
    /\ resp.body.title = "T2"

\* C10: delete_action leaves the webhooks alone, and authenticate_webhook on
\* a webhook whose action has been deleted ends in NoResultFound for every
\* secret.
C10_DanglingAction ==
    /\ [](resp.op = "authenticate_webhook" =>
            \A h \in webhooks :
                (/\ h.id = resp.args.webhook_id
                 /\ \E d \in deleted : d.id = h.action_id)
                => resp.outcome = "NoResultFound")
    /\ [][resp'.op = "delete_action" => webhooks' = webhooks]_vars

\* The stored secret sent to a webhook whose action has been deleted.
C10_Witness ==
    /\ resp.op = "authenticate_webhook"
    /\ resp.outcome = "NoResultFound"
    /\ \E h \in webhooks :
           /\ h.id = resp.args.webhook_id
           /\ h.secret = resp.args.secret
           /\ \E d \in deleted : d.id = h.action_id
====
